---- MODULE Spec2Model ----
(***************************************************************************)
(* A model of extract_sprites.py: the sprite-sheet slicer.                 *)
(*                                                                         *)
(* Text (file names, character names) is a sequence of one-character       *)
(* strings, so that startswith/endswith, splitext, replace, the            *)
(* alphanumeric filter, f-string formatting and sorted() are computed      *)
(* character by character, as Python computes them.                        *)
(*                                                                         *)
(* An image is never stored pixel by pixel: a crop is recorded as the sheet *)
(* it was taken from and the box (left, upper, right, lower) handed to     *)
(* Image.crop, which selects the pixels left <= x < right,                 *)
(* upper <= y < lower of that sheet.                                       *)
(***************************************************************************)
EXTENDS Integers, Sequences, FiniteSets, TLC

VARIABLES
    \* ---- inputs of one run (fixed at Init) ----
    listing,            \* os.listdir("."): a set of file names
    txt,                \* the sidecar name files: file name -> its raw lines
    argv,               \* sys.argv
    optipngInstalled,   \* whether shutil.which('optipng') finds the tool
    \* ---- main ----
    pc,                 \* "main","open","faces","portraits","optimize",
                        \* "done","returned","aborted"
    output_dir,
    use_optipng,
    queue,              \* sorted(sprite_sheets)
    sheetIdx,           \* position of the for loop of main in queue
    \* ---- extract_sprites_from_sheet ----
    character_names,    \* [found, names]: found = FALSE stands for None
    character_index,
    row,
    slot,               \* index into sprite_positions (faces), col (portraits)
    files_to_optimize,
    optIdx,             \* position of the optimizer loop in files_to_optimize
    \* ---- the file system and the external tool ----
    dirs,               \* directories created by os.makedirs
    outFiles,           \* the files of output_dir: records [name, sheet, box]
    optCalls,           \* invocations of optipng so far
    optFailures,        \* of which ended with a non-zero exit status
    \* ---- history ----
    saveLog,            \* the saves of the sheet in progress, in order
    opened,             \* sheets handed to extract_sprites_from_sheet
    completed,          \* sheets whose extraction ran to its last line
    abortCause,         \* what raised out of main, "" if nothing
    \* ---- sanitize_filename applied to one name ----
    sanIn, sanOut, sanPc,
    \* ---- a batch whose saves run in another order ----
    ordSaves,           \* the saves of the batch, in the order they are run
    ordIdx,             \* how many of them have run
    ordFiles            \* the files of the output directory

vars == <<listing, txt, argv, optipngInstalled, pc, output_dir, use_optipng,
          queue, sheetIdx, character_names, character_index, row, slot,
          files_to_optimize, optIdx, dirs, outFiles, optCalls, optFailures,
          saveLog, opened, completed, abortCause, sanIn, sanOut, sanPc,
          ordSaves, ordIdx, ordFiles>>

mainVars == <<listing, txt, argv, optipngInstalled, pc, output_dir,
              use_optipng, queue, sheetIdx, character_names, character_index,
              row, slot, files_to_optimize, optIdx, dirs, outFiles, optCalls,
              optFailures, saveLog, opened, completed, abortCause>>

sanVars == <<sanIn, sanOut, sanPc>>

ordVars == <<ordSaves, ordIdx, ordFiles>>

(***************************************************************************)
(* Bounds of the model.                                                    *)
(***************************************************************************)
\* sheets in the working directory
MaxSheets == 2
\* names a sidecar file holds beyond the 20 the sheet has slots for
MaxExtraNames == 1
\* optimizer invocations of one run that exit non-zero
MaxOptFailures == 2
\* length of the names sanitize_filename is applied to on its own
MaxSanLen == 3

(***************************************************************************)
(* Text.                                                                   *)
(***************************************************************************)
Max(S) == CHOOSE x \in S : \A y \in S : y <= x

LowerCase == {"a","b","c","d","e","f","g","h","i","j","k","l","m",
              "n","o","p","q","r","s","t","u","v","w","x","y","z"}
UpperCase == {"A","B","C","D","E","F","G","H","I","J","K","L","M",
              "N","O","P","Q","R","S","T","U","V","W","X","Y","Z"}
DigitChars == {"0","1","2","3","4","5","6","7","8","9"}

\* str.isalnum() on one character (of the ASCII range)
isalnum(c) == c \in LowerCase \cup UpperCase \cup DigitChars

\* str.isspace() on one character: what str.strip() removes
isspace(c) == c \in {" ", "\t", "\n", "\r"}

\* ord(): the code points sorted() compares file names by
ord(c) ==
    CASE c = "-" -> 45 [] c = "." -> 46 [] c = "/" -> 47
      [] c = "0" -> 48 [] c = "1" -> 49 [] c = "2" -> 50 [] c = "3" -> 51
      [] c = "9" -> 57 [] c = "_" -> 95
      [] c = "a" -> 97 [] c = "b" -> 98 [] c = "c" -> 99 [] c = "e" -> 101
      [] c = "f" -> 102 [] c = "g" -> 103 [] c = "i" -> 105 [] c = "j" -> 106
      [] c = "n" -> 110 [] c = "o" -> 111 [] c = "p" -> 112 [] c = "r" -> 114
      [] c = "s" -> 115 [] c = "t" -> 116 [] c = "w" -> 119 [] c = "x" -> 120

\* Python's comparison of two str values: lexicographic by code point
RECURSIVE StrLess(_, _)
StrLess(a, b) ==
    IF a = <<>> THEN b # <<>>
    ELSE IF b = <<>> THEN FALSE
    ELSE IF Head(a) = Head(b) THEN StrLess(Tail(a), Tail(b))
    ELSE ord(Head(a)) < ord(Head(b))

startswith(s, p) == Len(s) >= Len(p) /\ SubSeq(s, 1, Len(p)) = p

endswith(s, p) ==
    Len(s) >= Len(p) /\ SubSeq(s, Len(s) - Len(p) + 1, Len(s)) = p

\* str.rfind of one character, 1-based; 0 when absent
rfind(s, c) ==
    LET I == {i \in 1..Len(s) : s[i] = c} IN IF I = {} THEN 0 ELSE Max(I)

\* os.path.splitext: the extension starts at the last dot of the last path
\* component, unless only dots precede it there
splitext(p) ==
    LET sep == rfind(p, "/")
        dot == rfind(p, ".")
    IN  IF dot > sep /\ (\E i \in (sep + 1)..(dot - 1) : p[i] # ".")
        THEN <<SubSeq(p, 1, dot - 1), SubSeq(p, dot, Len(p))>>
        ELSE <<p, <<>>>>

\* os.path.basename
basename(p) == SubSeq(p, rfind(p, "/") + 1, Len(p))

\* str.strip()
RECURSIVE lstrip(_)
lstrip(s) ==
    IF s # <<>> /\ isspace(Head(s)) THEN lstrip(Tail(s)) ELSE s

RECURSIVE rstrip(_)
rstrip(s) ==
    IF s # <<>> /\ isspace(s[Len(s)]) THEN rstrip(SubSeq(s, 1, Len(s) - 1))
    ELSE s

strip(s) == rstrip(lstrip(s))

\* str.replace(old, new) for one-character old and new
replace(s, old, new) ==
    [i \in 1..Len(s) |-> IF s[i] = old THEN new ELSE s[i]]

\* str(n) of a natural number, as an f-string formats it
DigitSeq == <<"0","1","2","3","4","5","6","7","8","9">>
RECURSIVE str(_)
str(n) ==
    IF n < 10 THEN <<DigitSeq[n + 1]>>
    ELSE str(n \div 10) \o <<DigitSeq[(n % 10) + 1]>>

(***************************************************************************)
(* sanitize_filename                                                       *)
(***************************************************************************)
\* a slip: the filter runs before the replacement, so spaces are dropped
sanitize_filter_first(name) ==
    replace(SelectSeq(name, LAMBDA c : isalnum(c) \/ c \in {"_", "-"}),
            " ", "_")

sanitize_filename(name) ==
    LET safe_name == replace(name, " ", "_")
    IN  SelectSeq(safe_name, LAMBDA c : isalnum(c) \/ c \in {"_", "-"})

(***************************************************************************)
(* The working directory of a run.                                         *)
(***************************************************************************)
SheetPrefix == <<"n","p","c","-","s","p","r","i","t","e","s","-">>
ExtPng == <<".","p","n","g">>
ExtWebp == <<".","w","e","b","p">>
ExtJpg == <<".","j","p","g">>
ExtTxt == <<".","t","x","t">>

\* two sheets of one base name, and a third of another
SheetA == SheetPrefix \o <<"1">> \o ExtJpg
SheetB == SheetPrefix \o <<"1">> \o ExtPng
SheetC == SheetPrefix \o <<"2">> \o ExtWebp
SheetFiles == {SheetA, SheetB, SheetC}

\* files of the directory that are no sheets: wrong prefix, wrong extension,
\* a name file without a sheet
OtherFiles ==
    { <<"n","o","t","e","s">> \o ExtPng,
      <<"n","p","c","-","s","p","r","i","t","e","-","1">> \o ExtPng,
      SheetPrefix \o <<"3",".","g","i","f">>,
      SheetPrefix \o <<"9">> \o ExtTxt }

\* character names: one letter each, pairwise distinct
PoolLetters == <<"a","b","c","d","e","f","g","h","i","j","k","l","m",
                 "n","o","p","q","r","s","t","u","v","w","x","y","z">>
DistinctLines(k) == [i \in 1..k |-> <<PoolLetters[i]>>]

\* 20 names, the third a repetition of the first
DupLines == [DistinctLines(20) EXCEPT ![3] = <<"a">>]

\* 20 names on 22 lines: lines that need stripping, blank lines, and names
\* that sanitize to the same text, to nothing, or to another name followed by
\* "face"
MessyLines ==
    << <<"B","o","b"," ","O","'","B","r","i","e","n"," ","(","2",")">>,
       <<>>,
       <<" "," ","c"," ","d"," ">>,
       <<"c","_","d">>,
       <<"\t">>,
       <<"(",")">>,
       <<"a">>,
       <<"a","f","a","c","e">> >>
    \o [i \in 1..14 |-> <<PoolLetters[i + 7], "-", "x">>]

\* one name, equal to a positional portrait name of sheet 1 without ".png"
PosLines ==
    << SheetPrefix \o <<"1","_","r","o","w","4","_","s","p","r","i","t","e",
                        "1","_","p","o","r","t","r","a","i","t">> >>

NameFile1 == SheetPrefix \o <<"1">> \o ExtTxt
NameFile2 == SheetPrefix \o <<"2">> \o ExtTxt

\* what the name file of each base may hold
LinesOf ==
    [f \in {NameFile1, NameFile2} |->
        IF f = NameFile1
        THEN {DistinctLines(k) : k \in 0..(20 + MaxExtraNames)}
                 \cup {DupLines, MessyLines, PosLines}
        ELSE {DistinctLines(20)}]

NameFileOf(sheet_path) == splitext(sheet_path)[1] \o ExtTxt

\* the name files a directory with these sheets may hold, the lines of each
\* drawn from L
TxtConfigs(sheets, L) ==
    UNION { {t \in [D -> UNION {L[f] : f \in D}] :
                \A f \in D : t[f] \in L[f]} :
            D \in SUBSET {NameFileOf(s) : s \in sheets} }

Argvs == { <<"extract_sprites.py">>, <<"extract_sprites.py", "out">> }

(***************************************************************************)
(* load_character_names                                                    *)
(***************************************************************************)
NoNames == [found |-> FALSE, names |-> <<>>]

load_character_names(sheet_path, files) ==
    LET base_name == splitext(sheet_path)[1]
        names_file == base_name \o ExtTxt
    IN  IF names_file \notin DOMAIN files
        THEN NoNames
        ELSE [found |-> TRUE,
              names |-> SelectSeq([i \in 1..Len(files[names_file]) |->
                                       strip(files[names_file][i])],
                                  LAMBDA line : line # <<>>)]

\* Python's truth value of character_names: None and [] are false
truthy(cn) == cn.found /\ cn.names # <<>>

(***************************************************************************)
(* The crops and the file names of extract_sprites_from_sheet              *)
(***************************************************************************)
\* a slip: top-right and bottom-left exchanged
sprite_positions_swapped ==
    << <<0, 0, "1">>, <<0, 16, "2">>, <<16, 0, "3">>, <<16, 16, "4">> >>

sprite_positions ==
    << <<0, 0, "1">>, <<16, 0, "2">>, <<0, 16, "3">>, <<16, 16, "4">> >>

\* the box handed to sheet.crop for the face at sprite_positions[k] of a row
FaceBox(r, k) ==
    LET base_y == r * 32
        base_x == 0
        x == base_x + sprite_positions[k][1]
        y == base_y + sprite_positions[k][2]
    IN  <<x, y, x + 16, y + 16>>

\* a slip: the first portrait column taken to be column 0
PortraitBox_from_col0(r, col) ==
    LET x == (col - 1) * 32
        y == r * 32
    IN  <<x, y, x + 32, y + 32>>

\* the box handed to sheet.crop for the portrait of a row and column
PortraitBox(r, col) ==
    LET x == col * 32
        y == r * 32
    IN  <<x, y, x + 32, y + 32>>

S_face_png == <<"f","a","c","e",".","p","n","g">>
S_png == <<".","p","n","g">>
S_row == <<"_","r","o","w">>
S_sprite == <<"_","s","p","r","i","t","e">>
S_portrait_png == <<"_","p","o","r","t","r","a","i","t",".","p","n","g">>

\* a slip: the bound of the name list tested with <=, one name too far
FaceName_off_by_one(cn, idx, base_name, r, sprite_num) ==
    IF truthy(cn) /\ idx <= Len(cn.names)
    THEN sanitize_filename(cn.names[IF idx < Len(cn.names)
                                    THEN idx + 1 ELSE idx]) \o S_face_png
    ELSE base_name \o S_row \o str(r) \o S_sprite \o sprite_num \o S_png

FaceName(cn, idx, base_name, r, sprite_num) ==
    IF truthy(cn) /\ idx < Len(cn.names)
    THEN sanitize_filename(cn.names[idx + 1]) \o S_face_png
    ELSE base_name \o S_row \o str(r) \o S_sprite \o sprite_num \o S_png

\* a slip: the portrait named after the raw name, not the sanitized one
PortraitName_raw(cn, idx, base_name, r, col) ==
    LET sprite_index == (col - 1) + 1
    IN  IF truthy(cn) /\ idx < Len(cn.names)
        THEN cn.names[idx + 1] \o S_png
        ELSE base_name \o S_row \o str(r) \o S_sprite
                 \o str(sprite_index) \o S_portrait_png

\* a slip: the positional portrait name without its row
PortraitName_no_row(cn, idx, base_name, r, col) ==
    LET sprite_index == (col - 1) + 1
    IN  IF truthy(cn) /\ idx < Len(cn.names)
        THEN sanitize_filename(cn.names[idx + 1]) \o S_png
        ELSE base_name \o S_sprite \o str(sprite_index) \o S_portrait_png

PortraitName(cn, idx, base_name, r, col) ==
    LET sprite_index == (col - 1) + 1
    IN  IF truthy(cn) /\ idx < Len(cn.names)
        THEN sanitize_filename(cn.names[idx + 1]) \o S_png
        ELSE base_name \o S_row \o str(r) \o S_sprite
                 \o str(sprite_index) \o S_portrait_png

\* a slip: a save under a name already taken leaves the old file beside the
\* new one
save_keep_both(files, name, path, box) ==
    files \cup {[name |-> name, sheet |-> path, box |-> box]}

\* Image.save to a path of the output directory: a file of that name is
\* replaced
save(files, name, path, box) ==
    {f \in files : f.name # name}
        \cup {[name |-> name, sheet |-> path, box |-> box]}

(***************************************************************************)
(* optimize_png_with_optipng                                               *)
(***************************************************************************)
\* how a run of the tool ends once started: exit status 0, or a non-zero exit
\* status, which subprocess.run(check=True) turns into CalledProcessError
OptOutcomes == {"ok", "nonzero"}

\* a slip: CalledProcessError is not caught
optimize_uncaught(outcome) ==
    IF outcome = "nonzero" THEN "raised" ELSE "returned"

\* "returned" when the function returns, "raised" when an exception leaves it
optimize_png_with_optipng(outcome) ==
    IF outcome = "nonzero" THEN "returned" ELSE "returned"

(***************************************************************************)
(* main: the sheets of the directory and their order                       *)
(***************************************************************************)
\* a slip: the prefix is not tested
IsSheet_any_prefix(f) ==
    endswith(f, ExtPng) \/ endswith(f, ExtWebp) \/ endswith(f, ExtJpg)

IsSheet(f) ==
    /\ startswith(f, SheetPrefix)
    /\ (endswith(f, ExtPng) \/ endswith(f, ExtWebp) \/ endswith(f, ExtJpg))

\* a slip: the list sorted in descending order
RECURSIVE sorted_descending(_)
sorted_descending(S) ==
    IF S = {} THEN <<>>
    ELSE LET m == CHOOSE x \in S : \A y \in S \ {x} : StrLess(y, x)
         IN  <<m>> \o sorted_descending(S \ {m})

RECURSIVE sorted(_)
sorted(S) ==
    IF S = {} THEN <<>>
    ELSE LET m == CHOOSE x \in S : \A y \in S \ {x} : StrLess(x, y)
         IN  <<m>> \o sorted(S \ {m})

check_optipng_available == optipngInstalled

(***************************************************************************)
(* The run of main                                                         *)
(***************************************************************************)
SanIdle == sanIn = <<>> /\ sanOut = <<>> /\ sanPc = "off"
OrdIdle == ordSaves = <<>> /\ ordIdx = 0 /\ ordFiles = {}

\* the working directory: at most MaxSheets sheets, their name files, and
\* the files that are no sheets
InitDirectory(L) ==
    \E sheets \in {S \in SUBSET SheetFiles : Cardinality(S) <= MaxSheets} :
       \E t \in TxtConfigs(sheets, L) :
          /\ txt = t
          /\ listing = sheets \cup OtherFiles \cup DOMAIN t

\* the directory, the name files, the command line and the installed tools
InitInputs ==
    /\ InitDirectory(LinesOf)
    /\ argv \in Argvs
    /\ optipngInstalled \in BOOLEAN

InitLocals ==
    /\ output_dir = "extracted_sprites"
    /\ use_optipng = FALSE
    /\ queue = <<>>
    /\ sheetIdx = 0
    /\ character_names = NoNames
    /\ character_index = 0
    /\ row = 0
    /\ slot = 0
    /\ files_to_optimize = <<>>
    /\ optIdx = 0
    /\ dirs = {}
    /\ outFiles = {}
    /\ optCalls = 0
    /\ optFailures = 0
    /\ saveLog = <<>>
    /\ opened = <<>>
    /\ completed = <<>>
    /\ abortCause = ""

Init == InitInputs /\ pc = "main" /\ InitLocals /\ SanIdle /\ OrdIdle

inputVars == <<listing, txt, argv, optipngInstalled>>
sheetVars == <<character_names, character_index, row, slot,
               files_to_optimize, optIdx, saveLog>>

sprite_sheets == {f \in listing : IsSheet(f)}

\* main, when no sheet is found: the message and the early return
MainNoSheets ==
    /\ pc = "main"
    /\ sprite_sheets = {}
    /\ pc' = "returned"
    /\ UNCHANGED <<inputVars, output_dir, use_optipng, queue, sheetIdx,
                   sheetVars, dirs, outFiles, optCalls, optFailures, opened,
                   completed, abortCause, sanVars, ordVars>>

\* main, up to the first iteration of its loop over sorted(sprite_sheets)
MainStart ==
    /\ pc = "main"
    /\ sprite_sheets # {}
    /\ output_dir' = IF Len(argv) > 1 THEN argv[2] ELSE output_dir
    /\ use_optipng' = check_optipng_available
    /\ queue' = sorted(sprite_sheets)
    /\ sheetIdx' = 1
    /\ pc' = "open"
    /\ UNCHANGED <<inputVars, sheetVars, dirs, outFiles, optCalls,
                   optFailures, opened, completed, abortCause, sanVars,
                   ordVars>>

sheet_path == queue[sheetIdx]
base_name == splitext(basename(sheet_path))[1]

\* extract_sprites_from_sheet, from Image.open to the first crop
OpenSheet ==
    /\ pc = "open"
    /\ opened' = Append(opened, sheet_path)
    /\ character_names' = load_character_names(sheet_path, txt)
    /\ dirs' = dirs \cup {output_dir}
    /\ files_to_optimize' = <<>>
    /\ character_index' = 0
    /\ row' = 0
    /\ slot' = 1
    /\ optIdx' = 0
    /\ saveLog' = <<>>
    /\ pc' = "faces"
    /\ UNCHANGED <<inputVars, output_dir, use_optipng, queue, sheetIdx,
                   outFiles, optCalls, optFailures, completed, abortCause,
                   sanVars, ordVars>>

\* Image.open, the read of the name file or os.makedirs raises: nothing
\* catches it, and it leaves main
OpenSheetFails ==
    /\ pc = "open"
    /\ opened' = Append(opened, sheet_path)
    /\ pc' = "aborted"
    /\ abortCause' = "io"
    /\ UNCHANGED <<inputVars, output_dir, use_optipng, queue, sheetIdx,
                   sheetVars, dirs, outFiles, optCalls, optFailures,
                   completed, sanVars, ordVars>>

\* one pass of the inner loop over sprite_positions: crop, name, save, track
SaveFace ==
    /\ pc = "faces"
    /\ LET sprite_num == <<sprite_positions[slot][3]>>
           box == FaceBox(row, slot)
           sprite_name == FaceName(character_names, character_index,
                                   base_name, row, sprite_num)
       IN  /\ outFiles' = save(outFiles, sprite_name, sheet_path, box)
           /\ saveLog' = Append(saveLog,
                  [kind |-> "face", row |-> row, slot |-> slot,
                   index |-> character_index, name |-> sprite_name,
                   box |-> box, sheet |-> sheet_path])
           /\ files_to_optimize' =
                  IF use_optipng THEN Append(files_to_optimize, sprite_name)
                  ELSE files_to_optimize
    /\ IF slot < Len(sprite_positions)
       THEN /\ slot' = slot + 1
            /\ character_index' = character_index + 1
            /\ UNCHANGED <<row, pc>>
       ELSE IF row + 1 < 5
       THEN /\ slot' = 1
            /\ row' = row + 1
            /\ character_index' = character_index + 1
            /\ UNCHANGED pc
       ELSE \* the loop ends; the portrait loop starts over from index 0
            /\ slot' = 1
            /\ row' = 0
            /\ character_index' = 0
            /\ pc' = "portraits"
    /\ UNCHANGED <<inputVars, output_dir, use_optipng, queue, sheetIdx,
                   character_names, optIdx, dirs, optCalls, optFailures,
                   opened, completed, abortCause, sanVars, ordVars>>

\* one pass of the inner loop over range(1, 5): crop, name, save, track
SavePortrait ==
    /\ pc = "portraits"
    /\ LET col == slot
           box == PortraitBox(row, col)
           portrait_name == PortraitName(character_names, character_index,
                                         base_name, row, col)
       IN  /\ outFiles' = save(outFiles, portrait_name, sheet_path, box)
           /\ saveLog' = Append(saveLog,
                  [kind |-> "portrait", row |-> row, slot |-> col,
                   index |-> character_index, name |-> portrait_name,
                   box |-> box, sheet |-> sheet_path])
           /\ files_to_optimize' =
                  IF use_optipng THEN Append(files_to_optimize, portrait_name)
                  ELSE files_to_optimize
    /\ character_index' = character_index + 1
    /\ IF slot + 1 < 5
       THEN /\ slot' = slot + 1
            /\ UNCHANGED <<row, pc, optIdx>>
       ELSE IF row + 1 < 5
       THEN /\ slot' = 1
            /\ row' = row + 1
            /\ UNCHANGED <<pc, optIdx>>
       ELSE /\ slot' = 1
            /\ row' = 0
            /\ optIdx' = 1
            /\ pc' = "optimize"
    /\ UNCHANGED <<inputVars, output_dir, use_optipng, queue, sheetIdx,
                   character_names, dirs, optCalls, optFailures, opened,
                   completed, abortCause, sanVars, ordVars>>

\* sprite.save or portrait.save raises: nothing catches it
SaveFails ==
    /\ pc \in {"faces", "portraits"}
    /\ pc' = "aborted"
    /\ abortCause' = "io"
    /\ UNCHANGED <<inputVars, output_dir, use_optipng, queue, sheetIdx,
                   sheetVars, dirs, outFiles, optCalls, optFailures, opened,
                   completed, sanVars, ordVars>>

\* one pass of the loop over files_to_optimize
OptimizeFile ==
    /\ pc = "optimize"
    /\ use_optipng /\ files_to_optimize # <<>>
    /\ optIdx <= Len(files_to_optimize)
    /\ \E outcome \in OptOutcomes :
         /\ outcome = "nonzero" => optFailures < MaxOptFailures
         /\ optCalls' = optCalls + 1
         /\ optFailures' = IF outcome = "nonzero" THEN optFailures + 1
                           ELSE optFailures
         /\ IF optimize_png_with_optipng(outcome) = "raised"
            THEN /\ pc' = "aborted"
                 /\ abortCause' = "optimizer"
                 /\ UNCHANGED optIdx
            ELSE /\ optIdx' = optIdx + 1
                 /\ UNCHANGED <<pc, abortCause>>
    /\ UNCHANGED <<inputVars, output_dir, use_optipng, queue, sheetIdx,
                   character_names, character_index, row, slot,
                   files_to_optimize, saveLog, dirs, outFiles, opened,
                   completed, sanVars, ordVars>>

\* the end of extract_sprites_from_sheet and the next iteration of main's loop
FinishSheet ==
    /\ pc = "optimize"
    /\ ~(use_optipng /\ files_to_optimize # <<>>)
           \/ optIdx > Len(files_to_optimize)
    /\ completed' = Append(completed, sheet_path)
    /\ IF sheetIdx < Len(queue)
       THEN sheetIdx' = sheetIdx + 1 /\ pc' = "open"
       ELSE sheetIdx' = sheetIdx /\ pc' = "done"
    /\ UNCHANGED <<inputVars, output_dir, use_optipng, queue, sheetVars,
                   dirs, outFiles, optCalls, optFailures, opened, abortCause,
                   sanVars, ordVars>>

Next ==
    \/ MainNoSheets
    \/ MainStart
    \/ OpenSheet
    \/ OpenSheetFails
    \/ SaveFace
    \/ SavePortrait
    \/ SaveFails
    \/ OptimizeFile
    \/ FinishSheet

Spec == Init /\ [][Next]_vars

(***************************************************************************)
(* sanitize_filename on its own: one call on one name                      *)
(***************************************************************************)
SanAlphabet == {"a", "B", "2", " ", "_", "-", "'", "("}

BobOBrien2 ==
    <<"B","o","b"," ","O","'","B","r","i","e","n"," ","(","2",")">>

SanInputs ==
    {BobOBrien2} \cup UNION {[1..n -> SanAlphabet] : n \in 0..MaxSanLen}

MainIdle ==
    /\ listing = {} /\ txt = <<>> /\ argv = <<>> /\ optipngInstalled = FALSE
    /\ pc = "off"
    /\ InitLocals

SanInit ==
    /\ sanIn \in SanInputs
    /\ sanOut = <<>>
    /\ sanPc = "call"
    /\ MainIdle /\ OrdIdle

SanApply ==
    /\ sanPc = "call"
    /\ sanOut' = sanitize_filename(sanIn)
    /\ sanPc' = "return"
    /\ UNCHANGED <<sanIn, mainVars, ordVars>>

SanSpec == SanInit /\ [][SanApply]_vars

(***************************************************************************)
(* The saves of a batch, and the same saves run in another order           *)
(***************************************************************************)
\* the 40 saves of one sheet in the order of the two loops: what is cropped
\* and the name it is saved under
SheetSaves(path, files) ==
    LET cn == load_character_names(path, files)
        base == splitext(basename(path))[1]
        face(n) ==
            LET r == (n - 1) \div Len(sprite_positions)
                k == ((n - 1) % Len(sprite_positions)) + 1
            IN  [kind |-> "face", row |-> r, slot |-> k, index |-> n - 1,
                 name |-> FaceName(cn, n - 1, base, r,
                                   <<sprite_positions[k][3]>>),
                 box |-> FaceBox(r, k), sheet |-> path]
        portrait(n) ==
            LET r == (n - 1) \div 4
                col == ((n - 1) % 4) + 1
            IN  [kind |-> "portrait", row |-> r, slot |-> col,
                 index |-> n - 1,
                 name |-> PortraitName(cn, n - 1, base, r, col),
                 box |-> PortraitBox(r, col), sheet |-> path]
    IN  [n \in 1..20 |-> face(n)] \o [n \in 1..20 |-> portrait(n)]

RECURSIVE ConcatSaves(_, _)
ConcatSaves(paths, files) ==
    IF paths = <<>> THEN <<>>
    ELSE SheetSaves(Head(paths), files) \o ConcatSaves(Tail(paths), files)

\* the saves of main's loop over sorted(sprite_sheets), in order
BatchSaves(ls, files) ==
    ConcatSaves(sorted({f \in ls : IsSheet(f)}), files)

\* the output directory after these saves, run in this order on these files:
\* under each name the last save of that name, and the files no save names
RunSaves(saves, files) ==
    LET n == Len(saves)
        last == {i \in 1..n :
                    \A j \in (i + 1)..n : saves[j].name # saves[i].name}
    IN  {f \in files : \A i \in 1..n : saves[i].name # f.name}
        \cup {[name |-> saves[i].name, sheet |-> saves[i].sheet,
               box |-> saves[i].box] : i \in last}

\* name files of the reordered batch: none, 20 distinct names, a repeated
\* name, fewer names than slots
OrdLinesOf ==
    [f \in {NameFile1, NameFile2} |->
        IF f = NameFile1
        THEN {DistinctLines(20), DupLines, DistinctLines(3)}
        ELSE {DistinctLines(20)}]

\* orders of n saves, each a permutation of 1..n: the order of the code, two
\* neighbours exchanged, everything backwards, the sheets backwards with each
\* sheet's saves in the order of the code, and each sheet's saves backwards
OrdPerms(n) ==
    LET id == [i \in 1..n |-> i]
    IN  {id}
        \cup {[id EXCEPT ![i] = i + 1, ![i + 1] = i] : i \in 1..(n - 1)}
        \cup {[i \in 1..n |-> n + 1 - i]}
        \cup {[i \in 1..n |-> (n - 40 * (((i - 1) \div 40) + 1)) + ((i - 1) % 40) + 1]}
        \cup {[i \in 1..n |-> 40 * ((i - 1) \div 40) + 40 - ((i - 1) % 40)]}

OrdInit ==
    /\ InitDirectory(OrdLinesOf)
    /\ argv = <<>> /\ optipngInstalled = FALSE
    /\ pc = "off"
    /\ InitLocals
    /\ SanIdle
    /\ \E saves \in {BatchSaves(listing, txt)} :
          \E perm \in OrdPerms(Len(saves)) :
             ordSaves = [i \in 1..Len(saves) |-> saves[perm[i]]]
    /\ ordIdx = 0
    /\ ordFiles = {}

\* the next save of the reordered batch: each save keeps its crop and its name
OrdSave ==
    /\ ordIdx < Len(ordSaves)
    /\ LET s == ordSaves[ordIdx + 1]
       IN  ordFiles' = save(ordFiles, s.name, s.sheet, s.box)
    /\ ordIdx' = ordIdx + 1
    /\ UNCHANGED <<ordSaves, mainVars, sanVars>>

OrdSpec == OrdInit /\ [][OrdSave]_vars

(***************************************************************************)
(* What the claims speak of                                                *)
(***************************************************************************)
\* the two loops of the sheet in progress have just ended
AllSaved == pc = "optimize" /\ optIdx = 1

\* extract_sprites_from_sheet has just returned
AfterSheet == pc \in {"open", "done"} /\ completed # <<>>

Range(f) == {f[i] : i \in DOMAIN f}

\* the face and the portrait of character N, as logged: the loops save face N
\* N-th and portrait N (20 + N)-th
FaceOf(N) == saveLog[N + 1]
PortraitOf(N) == saveLog[20 + N + 1]

(***************************************************************************)
(* C1: for every row r in 0..4 and face position p in 0..3 the face crop   *)
(* is the 16x16 box at ((p mod 2)*16, r*32 + (p div 2)*16), and for every  *)
(* row r and column c in 1..4 the portrait crop is the 32x32 box at        *)
(* (c*32, r*32).                                                           *)
(***************************************************************************)
C1_CropGeometry ==
    AllSaved =>
        /\ \A r \in 0..4 : \A p \in 0..3 :
              \E e \in Range(saveLog) :
                 /\ e.kind = "face" /\ e.row = r /\ e.slot = p + 1
                 /\ e.box = << (p % 2) * 16,
                               r * 32 + (p \div 2) * 16,
                               (p % 2) * 16 + 16,
                               r * 32 + (p \div 2) * 16 + 16 >>
        /\ \A r \in 0..4 : \A c \in 1..4 :
              \E e \in Range(saveLog) :
                 /\ e.kind = "portrait" /\ e.row = r /\ e.slot = c
                 /\ e.box = <<c * 32, r * 32, c * 32 + 32, r * 32 + 32>>
        /\ \A e \in Range(saveLog) :
              /\ e.kind = "face" =>
                    LET p == e.slot - 1
                    IN  e.box = << (p % 2) * 16,
                                   e.row * 32 + (p \div 2) * 16,
                                   (p % 2) * 16 + 16,
                                   e.row * 32 + (p \div 2) * 16 + 16 >>
              /\ e.kind = "portrait" =>
                    e.box = <<e.slot * 32, e.row * 32,
                              e.slot * 32 + 32, e.row * 32 + 32>>

\* a sheet whose bottom-right face and last portrait have been cropped
C1_Witness ==
    /\ AllSaved
    /\ \E e \in Range(saveLog) :
          e.kind = "face" /\ e.box = <<16, 144, 32, 160>>
    /\ \E e \in Range(saveLog) :
          e.kind = "portrait" /\ e.box = <<128, 128, 160, 160>>

(***************************************************************************)
(* C2: with a name file of 20 names, for every N in 0..19 (N = row*4 +     *)
(* position for faces, N = row*4 + (col-1) for portraits) the N-th name    *)
(* names both outputs: the face is sanitize(name[N]) + "face.png" and the  *)
(* portrait sanitize(name[N]) + ".png".                                    *)
(***************************************************************************)
C2_NamesAlign ==
    (AllSaved /\ character_names.found /\ Len(character_names.names) = 20) =>
        /\ Len(saveLog) = 40
        /\ \A N \in 0..19 :
              LET name == character_names.names[N + 1]
              IN  /\ FaceOf(N).kind = "face"
                  /\ N = FaceOf(N).row * 4 + (FaceOf(N).slot - 1)
                  /\ FaceOf(N).name = sanitize_filename(name) \o S_face_png
                  /\ PortraitOf(N).kind = "portrait"
                  /\ N = PortraitOf(N).row * 4 + (PortraitOf(N).slot - 1)
                  /\ PortraitOf(N).name = sanitize_filename(name) \o S_png

\* 20 names of which one is changed by the sanitizer
C2_Witness ==
    /\ AllSaved
    /\ character_names.found /\ Len(character_names.names) = 20
    /\ \E N \in 1..20 :
          sanitize_filename(character_names.names[N])
              # character_names.names[N]

(***************************************************************************)
(* C3 as stated: after a sheet is extracted without the optimizer, the     *)
(* output directory holds 40 distinct files written by that sheet, for     *)
(* every name list.  A repeated name refutes it.                           *)
(***************************************************************************)
lastSheet == completed[Len(completed)]
FilesOfLastSheet == {f \in outFiles : f.sheet = lastSheet}

C3_FortyFilesAlways ==
    (AfterSheet /\ ~use_optipng) => Cardinality(FilesOfLastSheet) = 40

(***************************************************************************)
(* C3 amended: a sheet extracted without the optimizer performs exactly 40 *)
(* saves, 20 faces then 20 portraits in raster order; the output directory *)
(* then holds one file of that sheet per distinct file name saved, which   *)
(* is 40 files when the sheet has no names (no name file, or an empty one) *)
(* and fewer when two slots are given the same file name.                  *)
(***************************************************************************)
C3_FortySaves ==
    (AfterSheet /\ ~use_optipng) =>
        /\ Len(saveLog) = 40
        /\ saveLog = SheetSaves(lastSheet, txt)
        /\ \A i \in 1..40 :
              saveLog[i].kind = IF i <= 20 THEN "face" ELSE "portrait"
        /\ {f.name : f \in FilesOfLastSheet}
               = {saveLog[i].name : i \in 1..Len(saveLog)}
        /\ Cardinality(FilesOfLastSheet)
               = Cardinality({saveLog[i].name : i \in 1..Len(saveLog)})
        /\ Cardinality(FilesOfLastSheet) <= 40
        /\ ~truthy(character_names) => Cardinality(FilesOfLastSheet) = 40
        /\ Len(completed) = 1 => outFiles = RunSaves(saveLog, {})
        /\ files_to_optimize = <<>> /\ optCalls = 0

\* a sheet whose names collide has been extracted and left fewer files
C3_Witness ==
    /\ AfterSheet /\ ~use_optipng
    /\ truthy(character_names)
    /\ Len(saveLog) = 40
    /\ Cardinality(FilesOfLastSheet) < 40

(***************************************************************************)
(* C4: with a name file of k < 20 names (k = 0 included), every slot       *)
(* N < k uses the N-th name for its face and its portrait, and every slot  *)
(* N >= k uses the positional names {base}_row{row}_sprite{s}.png and      *)
(* {base}_row{row}_sprite{s}_portrait.png with s = (N mod 4) + 1 and       *)
(* row = N div 4.                                                          *)
(***************************************************************************)
C4_ShortNameFile ==
    (AllSaved /\ character_names.found /\ Len(character_names.names) < 20) =>
        LET k == Len(character_names.names)
            base == splitext(basename(sheet_path))[1]
            positional(N) ==
                base \o <<"_","r","o","w">> \o str(N \div 4)
                     \o <<"_","s","p","r","i","t","e">> \o str((N % 4) + 1)
        IN  /\ Len(saveLog) = 40
            /\ \A N \in 0..19 :
                  /\ FaceOf(N).kind = "face" /\ FaceOf(N).index = N
                  /\ PortraitOf(N).kind = "portrait"
                  /\ PortraitOf(N).index = N
                  /\ N < k =>
                        /\ FaceOf(N).name =
                              sanitize_filename(character_names.names[N + 1])
                                  \o <<"f","a","c","e",".","p","n","g">>
                        /\ PortraitOf(N).name =
                              sanitize_filename(character_names.names[N + 1])
                                  \o <<".","p","n","g">>
                  /\ N >= k =>
                        /\ FaceOf(N).name =
                              positional(N) \o <<".","p","n","g">>
                        /\ PortraitOf(N).name =
                              positional(N) \o <<"_","p","o","r","t","r","a",
                                                 "i","t",".","p","n","g">>

\* a name file that ends in the middle of a row
C4_Witness ==
    /\ AllSaved
    /\ character_names.found
    /\ Len(character_names.names) = 3

(***************************************************************************)
(* C5: sanitize_filename replaces every space by an underscore and then    *)
(* drops every character that is not alphanumeric, "_" or "-", keeping the *)
(* order; the result holds only such characters, and "Bob O'Brien (2)"     *)
(* becomes "Bob_OBrien_2".                                                 *)
(***************************************************************************)
\* the same, one character at a time
RECURSIVE SanitizedByChar(_)
SanitizedByChar(name) ==
    IF name = <<>> THEN <<>>
    ELSE LET c == Head(name)
         IN  (IF c = " " THEN <<"_">>
              ELSE IF isalnum(c) \/ c = "_" \/ c = "-" THEN <<c>>
              ELSE <<>>) \o SanitizedByChar(Tail(name))

NoMatchingSheet ==
    \A f \in listing :
       ~(/\ startswith(f, <<"n","p","c","-","s","p","r","i","t","e","s","-">>)
         /\ \/ endswith(f, <<".","p","n","g">>)
            \/ endswith(f, <<".","w","e","b","p">>)
            \/ endswith(f, <<".","j","p","g">>))

C6_NoSheetsNoEffect ==
    NoMatchingSheet =>
        /\ pc \in {"main", "returned"}
        /\ dirs = {} /\ outFiles = {}
        /\ optCalls = 0
        /\ opened = <<>>
        /\ abortCause = ""

\* main has returned from a directory that holds files, none of them a sheet
C6_Witness ==
    pc = "returned" /\ listing # {} /\ NoMatchingSheet

C9_SortedAndHalts ==
    /\ \A i \in 1..Len(opened) : \A j \in 1..Len(opened) :
          i < j => StrLess(opened[i], opened[j])
    /\ \A f \in listing :
          (IsSheet(f) /\ f \notin Range(opened)) =>
              \A i \in 1..Len(opened) : StrLess(opened[i], f)
    /\ Range(opened) \subseteq {f \in listing : IsSheet(f)}
    /\ Len(completed) <= Len(opened)
    /\ Len(opened) <= Len(completed) + 1
    /\ completed = SubSeq(opened, 1, Len(completed))
    /\ pc = "aborted" =>
          /\ Len(opened) = Len(completed) + 1
          /\ \A f \in outFiles : f.sheet \in Range(opened)
          /\ ~ENABLED Next
    /\ pc = "done" => Range(completed) = {f \in listing : IsSheet(f)}

\* a save of the second sheet failed after the first sheet was completed
C9_Witness ==
    /\ pc = "aborted" /\ abortCause = "io"
    /\ Len(completed) = 1 /\ Len(opened) = 2
    /\ saveLog # <<>>

(***************************************************************************)
(* C10: the 40 crop boxes of a sheet (20 faces of 16x16, 20 portraits of   *)
(* 32x32) lie inside the 160x160 sheet, are pairwise disjoint and cover    *)
(* every pixel exactly once; the faces tile x in 0..31 and the portraits   *)
(* x in 32..159.                                                           *)
(***************************************************************************)
\* the boxes are half-open: box b holds pixel (x, y) iff
\* b[1] <= x < b[3] and b[2] <= y < b[4]
BoxesDisjoint(a, b) ==
    a[3] <= b[1] \/ b[3] <= a[1] \/ a[4] <= b[2] \/ b[4] <= a[2]

\* the 16x16 block of pixels at (16*i, 16*j) lies in box b
BlockIn(i, j, b) ==
    /\ b[1] <= 16 * i /\ 16 * i + 16 <= b[3]
    /\ b[2] <= 16 * j /\ 16 * j + 16 <= b[4]

C10_CropsTileSheet ==
    AllSaved =>
        /\ Len(saveLog) = 40
        /\ \A i \in 1..40 :
              LET e == saveLog[i]
                  side == IF e.kind = "face" THEN 16 ELSE 32
              IN  /\ e.kind = IF i <= 20 THEN "face" ELSE "portrait"
                  /\ e.box[3] - e.box[1] = side /\ e.box[4] - e.box[2] = side
                  /\ 0 <= e.box[1] /\ e.box[3] <= 160
                  /\ 0 <= e.box[2] /\ e.box[4] <= 160
                  /\ e.kind = "face" => e.box[3] <= 32
                  /\ e.kind = "portrait" => e.box[1] >= 32
                  \* every edge lies on the 16-pixel grid, so a pixel is in
                  \* a box exactly when its 16x16 block is
                  /\ \A n \in 1..4 : e.box[n] % 16 = 0
        /\ \A i \in 1..40 : \A j \in 1..40 :
              i < j => BoxesDisjoint(saveLog[i].box, saveLog[j].box)
        /\ \A i \in 0..9 : \A j \in 0..9 :
              Cardinality({n \in 1..40 : BlockIn(i, j, saveLog[n].box)}) = 1

\* 40 different boxes have been cropped from one sheet
C10_Witness ==
    /\ AllSaved
    /\ Cardinality({saveLog[n].box : n \in 1..Len(saveLog)}) = 40

(***************************************************************************)
(* C8 as stated: whatever the sheets and the name lists, running the saves *)
(* of the batch in another order (each save keeping its crop and its name) *)
(* leaves the same files with the same content.  Two saves under one file  *)
(* name refute it: the later one wins.                                     *)
(***************************************************************************)
OrdDone == pc = "off" /\ ordSaves # <<>> /\ ordIdx = Len(ordSaves)

\* the output directory the order of the code leaves
CodeResult == RunSaves(BatchSaves(listing, txt), {})

C8_AnyOrderSameFiles == OrdDone => ordFiles = CodeResult

(***************************************************************************)
(* C8 amended: running the saves of a batch in another order leaves files  *)
(* of the same names; each file has the same content provided no two saves *)
(* of the batch go to the same file name, as is the case when no sheet has *)
(* a name file and no two sheets share a base name.                        *)
(***************************************************************************)
SheetsOfBatch == {f \in listing : IsSheet(f)}

C8_OrderInsensitiveUnlessCollision ==
    OrdDone =>
        /\ {f.name : f \in ordFiles} = {f.name : f \in CodeResult}
        /\ Cardinality({ordSaves[i].name : i \in 1..Len(ordSaves)})
               = Len(ordSaves)
           => ordFiles = CodeResult
        /\ (/\ DOMAIN txt = {}
            /\ \A a \in SheetsOfBatch : \A b \in SheetsOfBatch :
                  a # b => splitext(a)[1] # splitext(b)[1])
           => ordFiles = CodeResult

\* two named sheets without a collision, their saves run backwards
C8_Witness ==
    /\ OrdDone
    /\ Len(ordSaves) = 80
    /\ DOMAIN txt # {}
    /\ ordSaves[1].kind = "portrait" /\ ordSaves[1].index = 19
    /\ ordSaves[1].sheet = SheetC
    /\ Cardinality({f.name : f \in ordFiles}) = 80

====
